---- MODULE Spec2Model ----
(***************************************************************************)
(* Face identification and attendance engine of EyeDentify-server.         *)
(*                                                                         *)
(* Units.  The embedding model and the distance metric are an external     *)
(* library (face_recognition); an embedding is modelled as a point on a    *)
(* line and face_distance as the absolute difference, in units of 0.1, so  *)
(* the default threshold 0.6 is 6.  Wall-clock time is in minutes; a       *)
(* calendar day has DayLen minutes; total_hours is kept in hundredths of   *)
(* an hour, which is what round(x, 2) retains.                             *)
(***************************************************************************)
EXTENDS Integers, Sequences, FiniteSets, TLC

VARIABLES
    known_face_encodings,   \* FaceRecognitionService.known_face_encodings
    known_face_metadata,    \* FaceRecognitionService.known_face_metadata
    confidence_threshold,   \* FaceRecognitionService.confidence_threshold
    image,                  \* argument of the last identify_face call
    result,                 \* value returned by the last identify_face call
    now,                    \* datetime.now(), in minutes
    attendance,             \* rows of the attendance table
    recognition_logs,       \* rows of the recognition_logs table, in order
    req,                    \* the /identify requests in progress, per worker
    response,               \* the last response sent by /identify
    manual_marks,           \* number of POST /attendance requests served
    last_recognition,       \* EntranceMonitor.last_recognition
    monitor_events,         \* what process_frame reported, per detected face
    monitoring,             \* EntranceMonitor.run: the loop is running
    is_active,              \* users.is_active, per user
    facial_encodings,       \* rows of the facial_encodings table, in order
    model_file,             \* models/face_encodings.pkl
    trainer,                \* the face_service local to upload_user_photos
    upload,                 \* the last response of POST /users/<id>/photos
    lookup                  \* the /test requests in progress, per thread

service == <<known_face_encodings, known_face_metadata, confidence_threshold>>
lastcall == <<image, result>>
http == <<recognition_logs, req, response>>
monitor == <<last_recognition, monitor_events, monitoring>>
enrolment == <<is_active, facial_encodings, model_file, trainer, upload>>

vars ==
    <<service, lastcall, now, attendance, manual_marks, http, monitor,
      enrolment, lookup>>

(***************************************************************************)
(* Bounds                                                                  *)
(***************************************************************************)
MaxUsers == 2
\* users enrolled in the gallery of the attendance pipeline
MaxEnrolled == 1
MaxGallery == 2
MaxCoord == 8
\* HTTP requests (/identify and /attendance) served in a run
MaxRequests == 3
\* threads serving /identify at the same time
MaxWorkers == 2
\* the clock starts at StartTime and is followed for MaxElapsed minutes
StartTime == 0
MaxElapsed == 2
\* detected faces in a camera frame, and face events in a monitoring run
MaxFaces == 2
MaxEvents == 3
\* minutes for which the entrance is watched
MonitorElapsed == 6
\* photos in one upload, and uploads served in a run
MaxPhotos == 5
MaxUploads == 2

\* Python's None, for integer-valued fields
None == -1

\* FaceRecognitionService.__init__: self.confidence_threshold = 0.6
DefaultThreshold == 6

\* a calendar day in minutes (datetime.now().date())
DayLen == 1440

\* EntranceMonitor.__init__: cooldown_minutes=5
CooldownMinutes == 5

\* upload_user_photos: at least 3 photos, and at least 3 encodings
MinPhotos == 3

Users == 1..MaxUsers
Workers == 1..MaxWorkers
Enrolled == 1..MaxEnrolled
Coords == 0..MaxCoord
Thresholds == {0, 3, DefaultThreshold}

Abs(x) == IF x < 0 THEN -x ELSE x

(***************************************************************************)
(* Gallery                                                                 *)
(***************************************************************************)
\* one element of known_face_metadata, as built by retrain_model
Metadata(u) ==
    [user_id |-> u, full_name |-> <<"name", u>>, employee_id |-> <<"emp", u>>]

NoMetadata ==
    [user_id |-> None, full_name |-> <<"name", None>>,
     employee_id |-> <<"emp", None>>]

\* the galleries a model file can hold: parallel lists of equal length
Galleries ==
    UNION {[1..n -> [encoding : Coords, user_id : Users]] : n \in 0..MaxGallery}

(***************************************************************************)
(* Images: what the external detector and embedder make of an input        *)
(***************************************************************************)
Images ==
    [kind : {"face"}, encoding : Coords]
      \cup [kind : {"noface", "noencoding", "undecodable"}, encoding : {None}]

NoImage == [kind |-> "none", encoding |-> None]

(***************************************************************************)
(* identify_face                                                           *)
(***************************************************************************)
\* face_recognition.face_distance: distance of the probe to every entry
face_distance(encodings, probe) ==
    [i \in 1..Len(encodings) |-> Abs(encodings[i] - probe)]

\* faulty variant of argmin: the last occurrence of the minimum wins a tie
argmin_last(d) ==
    CHOOSE i \in 1..Len(d) :
        /\ \A j \in 1..Len(d) : d[i] <= d[j]
        /\ \A j \in (i + 1)..Len(d) : d[j] > d[i]

\* np.argmin: index of the first occurrence of the minimum
argmin(d) ==
    CHOOSE i \in 1..Len(d) :
        /\ \A j \in 1..Len(d) : d[i] <= d[j]
        /\ \A j \in 1..(i - 1) : d[j] > d[i]

\* '{best_distance:.2f}': the distance in hundredths
Format2f(d) == d * 10

Failure(text, d, t) ==
    [success |-> FALSE, user_id |-> None, full_name |-> NoMetadata.full_name,
     employee_id |-> NoMetadata.employee_id, confidence |-> None,
     distance |-> None,
     message |-> [text |-> text, distance |-> d, threshold |-> t]]

NoResult == Failure("", None, None)

MsgNotTrained == "Face recognition model not trained"
MsgNoFace == "No face detected in image"
MsgNoEncoding == "Could not generate encoding for detected face"
MsgNoKnown == "No known faces to compare against"
MsgLowConfidence == "Face not recognized with sufficient confidence"
MsgError == "Error during face recognition"

\* faulty variant of Match: a distance equal to the threshold is rejected
Match_strict(encodings, metadata, threshold, probe) ==
    LET face_distances == face_distance(encodings, probe)
        best_match_index == argmin(face_distances)
        best_distance == face_distances[best_match_index]
    IN  IF best_distance >= threshold
        THEN Failure(MsgLowConfidence, Format2f(best_distance), threshold)
        ELSE [success |-> TRUE,
              user_id |-> metadata[best_match_index].user_id,
              full_name |-> metadata[best_match_index].full_name,
              employee_id |-> metadata[best_match_index].employee_id,
              confidence |-> 10 - best_distance,
              distance |-> best_distance,
              message |-> [text |-> "", distance |-> None, threshold |-> None]]

Match(encodings, metadata, threshold, probe) ==
    LET face_distances == face_distance(encodings, probe)
        best_match_index == argmin(face_distances)
        best_distance == face_distances[best_match_index]
        confidence == 10 - best_distance
    IN  IF Len(face_distances) = 0
        THEN Failure(MsgNoKnown, None, None)
        ELSE IF best_distance > threshold
        THEN Failure(MsgLowConfidence, Format2f(best_distance), threshold)
        ELSE IF best_match_index > Len(metadata)
        THEN Failure(MsgError, None, None)
        ELSE LET user_info == metadata[best_match_index]
             IN  [success |-> TRUE,
                  user_id |-> user_info.user_id,
                  full_name |-> user_info.full_name,
                  employee_id |-> user_info.employee_id,
                  confidence |-> confidence,
                  distance |-> best_distance,
                  message |-> [text |-> "", distance |-> None,
                               threshold |-> None]]

\* faulty variant of identify_face: the gallery is looked at after detection
identify_face_detect_first(encodings, metadata, threshold, img) ==
    IF img.kind = "undecodable"
    THEN Failure(MsgError, None, None)
    ELSE IF img.kind = "noface"
    THEN Failure(MsgNoFace, None, None)
    ELSE IF img.kind = "noencoding"
    THEN Failure(MsgNoEncoding, None, None)
    ELSE IF Len(encodings) = 0
    THEN Failure(MsgNotTrained, None, None)
    ELSE Match(encodings, metadata, threshold, img.encoding)

\* faulty variant of identify_face: an encoding failure reads as a missing face
identify_face_one_message(encodings, metadata, threshold, img) ==
    IF Len(encodings) = 0
    THEN Failure(MsgNotTrained, None, None)
    ELSE IF img.kind = "undecodable"
    THEN Failure(MsgError, None, None)
    ELSE IF img.kind \in {"noface", "noencoding"}
    THEN Failure(MsgNoFace, None, None)
    ELSE Match(encodings, metadata, threshold, img.encoding)

identify_face(encodings, metadata, threshold, img) ==
    IF Len(encodings) = 0
    THEN Failure(MsgNotTrained, None, None)
    ELSE IF img.kind = "undecodable"
    THEN Failure(MsgError, None, None)
    ELSE IF img.kind = "noface"
    THEN Failure(MsgNoFace, None, None)
    ELSE IF img.kind = "noencoding"
    THEN Failure(MsgNoEncoding, None, None)
    ELSE Match(encodings, metadata, threshold, img.encoding)

(***************************************************************************)
(* Attendance table                                                        *)
(***************************************************************************)
NoRow ==
    [id |-> None, user_id |-> None, date |-> None, entry_time |-> None,
     exit_time |-> None, total_hours |-> None, status |-> ""]

\* datetime.date(): the calendar day of a time
DateOf(t) == t \div DayLen

\* round(minutes / 60, 2), in hundredths of an hour
RoundHours(minutes) == (5 * minutes + 1) \div 3

\* the id of the next inserted row (RETURNING id)
NewId(table) ==
    1 + Cardinality(table)

RowsOf(table, user_id, date) ==
    {row \in table : row.user_id = user_id /\ row.date = date}

\* faulty variant of create_attendance: a plain INSERT, without ON CONFLICT
insert_attendance(table, user_id, date, entry_time, exit_time, status) ==
    table \cup {[id |-> NewId(table), user_id |-> user_id, date |-> date,
                 entry_time |-> entry_time, exit_time |-> exit_time,
                 total_hours |-> None, status |-> status]}

\* faulty variant of create_attendance: the new row is stamped as already left
create_attendance_exit(table, user_id, date, entry_time, exit_time, status) ==
    table \cup {[id |-> NewId(table), user_id |-> user_id, date |-> date,
                 entry_time |-> entry_time, exit_time |-> entry_time,
                 total_hours |-> None, status |-> status]}

\* Attendance.create_attendance: INSERT ... ON CONFLICT (user_id, date)
\* DO UPDATE SET entry_time, exit_time, status
create_attendance(table, user_id, date, entry_time, exit_time, status) ==
    IF RowsOf(table, user_id, date) = {}
    THEN table \cup {[id |-> NewId(table), user_id |-> user_id, date |-> date,
                      entry_time |-> entry_time, exit_time |-> exit_time,
                      total_hours |-> None, status |-> status]}
    ELSE {IF row \in RowsOf(table, user_id, date)
          THEN [row EXCEPT !.entry_time = entry_time,
                           !.exit_time = exit_time,
                           !.status = status]
          ELSE row : row \in table}

\* Attendance.update_attendance(id, {'exit_time': t})
update_exit_time(table, id, t) ==
    {IF row.id = id THEN [row EXCEPT !.exit_time = t] ELSE row : row \in table}

\* faulty variant of update_total_hours: the hours are truncated, not rounded
update_total_hours_trunc(table, id, h) ==
    {IF row.id = id THEN [row EXCEPT !.total_hours = h - 1] ELSE row :
        row \in table}

\* Attendance.update_attendance(id, {'total_hours': h})
update_total_hours(table, id, h) ==
    {IF row.id = id THEN [row EXCEPT !.total_hours = h] ELSE row :
        row \in table}

\* Attendance.get_user_attendance_by_date: fetch_one, a row or None
get_user_attendance_by_date(table, user_id, date) ==
    IF RowsOf(table, user_id, date) = {}
    THEN NoRow
    ELSE CHOOSE row \in RowsOf(table, user_id, date) : TRUE

(***************************************************************************)
(* POST /identify (routes/recognition.py)                                  *)
(***************************************************************************)
IdleReq ==
    [pc |-> "idle", user_id |-> None, confidence |-> None, today |-> None,
     current_time |-> None, existing_record |-> NoRow]

\* the fields of the JSON response that depend on the attendance engine
NoResponse ==
    [code |-> None, success |-> FALSE, user_id |-> None,
     attendance_type |-> "", message |-> ""]

\* RecognitionLog.log_recognition
log_recognition(logs, user_id, confidence, status) ==
    Append(logs, [user_id |-> user_id, confidence |-> confidence,
                  status |-> status])

\* the gallery of the route's face_service: one entry per user
PipelineEncodings == [u \in Enrolled |-> u]
PipelineMetadata == [u \in Enrolled |-> Metadata(u)]

\* the images sent to /identify: each enrolled user, and a stranger
RequestImages ==
    {[kind |-> "face", encoding |-> u] : u \in Enrolled}
      \cup {[kind |-> "face", encoding |-> MaxEnrolled + DefaultThreshold + 1]}

\* requests served so far
Served == Len(recognition_logs) + manual_marks

\* a new request runs on the first free thread
FreeWorker(w) ==
    /\ req[w].pc = "idle"
    /\ \A v \in 1..(w - 1) : req[v].pc # "idle"

\* identify_face up to the call of mark_user_attendance and its first line.
\* The route reloads the model file only when the gallery is empty, which the
\* gallery of this specification never is.
Identify(w, img) ==
    /\ FreeWorker(w)
    /\ Served < MaxRequests
    /\ LET r == identify_face(known_face_encodings, known_face_metadata,
                              confidence_threshold, img)
       IN  IF ~r.success
           THEN /\ recognition_logs' =
                      log_recognition(recognition_logs, None, 0, "failed")
                /\ response' = [NoResponse EXCEPT !.code = 200,
                                                  !.message = r.message.text]
                /\ UNCHANGED req
           ELSE /\ recognition_logs' =
                      log_recognition(recognition_logs, r.user_id,
                                      r.confidence, "success")
                /\ req' = [req EXCEPT ![w] =
                             [IdleReq EXCEPT !.pc = "now",
                                             !.user_id = r.user_id,
                                             !.confidence = r.confidence,
                                             !.today = DateOf(now)]]
                /\ UNCHANGED response
    /\ UNCHANGED <<service, enrolment, lookup, lastcall, now, attendance,
                   manual_marks, monitor>>

\* mark_user_attendance: current_time = datetime.now()
SampleNow(w) ==
    /\ req[w].pc = "now"
    /\ req' = [req EXCEPT ![w].pc = "read", ![w].current_time = now]
    /\ UNCHANGED <<service, enrolment, lookup, lastcall, now, attendance,
                   manual_marks, recognition_logs, response, monitor>>

\* mark_user_attendance: existing_record = get_user_attendance_by_date(...)
ReadExisting(w) ==
    /\ req[w].pc = "read"
    /\ LET row == get_user_attendance_by_date(attendance, req[w].user_id,
                                              req[w].today)
       IN  req' = [req EXCEPT ![w].existing_record = row,
                              ![w].pc = IF row = NoRow THEN "create"
                                        ELSE "exit"]
    /\ UNCHANGED <<service, enrolment, lookup, lastcall, now, attendance,
                   manual_marks, recognition_logs, response, monitor>>

Respond(w, type, message) ==
    [code |-> 200, success |-> TRUE, user_id |-> req[w].user_id,
     attendance_type |-> type, message |-> message]

\* mark_user_attendance: first detection of the day
MarkEntry(w) ==
    /\ req[w].pc = "create"
    /\ attendance' = create_attendance(attendance, req[w].user_id,
                                       req[w].today, req[w].current_time,
                                       None, "present")
    /\ response' = Respond(w, "entry", "Entry time recorded")
    /\ req' = [req EXCEPT ![w] = IdleReq]
    /\ UNCHANGED <<service, enrolment, lookup, lastcall, now, manual_marks,
                   recognition_logs, monitor>>

\* mark_user_attendance: update_attendance(id, {'exit_time': current_time});
\* an existing row without entry_time makes the subtraction raise
MarkExit(w) ==
    /\ req[w].pc = "exit"
    /\ attendance' = update_exit_time(attendance, req[w].existing_record.id,
                                      req[w].current_time)
    /\ IF req[w].existing_record.entry_time = None
       THEN /\ response' = [NoResponse EXCEPT !.code = 500,
                                              !.message = "error"]
            /\ req' = [req EXCEPT ![w] = IdleReq]
       ELSE /\ req' = [req EXCEPT ![w].pc = "hours"]
            /\ UNCHANGED response
    /\ UNCHANGED <<service, enrolment, lookup, lastcall, now, manual_marks,
                   recognition_logs, monitor>>

\* mark_user_attendance: update_attendance(id, {'total_hours': round(.., 2)})
MarkHours(w) ==
    /\ req[w].pc = "hours"
    /\ attendance' =
          update_total_hours(attendance, req[w].existing_record.id,
              RoundHours(req[w].current_time
                           - req[w].existing_record.entry_time))
    /\ response' = Respond(w, "exit", "Exit time updated")
    /\ req' = [req EXCEPT ![w] = IdleReq]
    /\ UNCHANGED <<service, enrolment, lookup, lastcall, now, manual_marks,
                   recognition_logs, monitor>>

(***************************************************************************)
(* POST /attendance (routes/attendance.py): manual marking by an admin     *)
(***************************************************************************)
\* the bodies sent: an absence, or a presence entered now
ManualBodies ==
    {[entry_time |-> None, exit_time |-> None, status |-> "absent"],
     [entry_time |-> now, exit_time |-> None, status |-> "present"]}

ManualMark(u, body) ==
    /\ Served < MaxRequests
    /\ manual_marks' = manual_marks + 1
    /\ attendance' = create_attendance(attendance, u, DateOf(now),
                                       body.entry_time, body.exit_time,
                                       body.status)
    /\ UNCHANGED <<service, enrolment, lookup, lastcall, now, http, monitor>>

\* time passes
Tick ==
    /\ now < StartTime + MaxElapsed
    /\ now' = now + 1
    /\ UNCHANGED <<service, enrolment, lookup, lastcall, attendance,
                   manual_marks, http, monitor>>

(***************************************************************************)
(* The model file: pickle.dump and pickle.load                             *)
(*                                                                         *)
(* A pickle is a sequence of tokens: for each key of the dumped dict a     *)
(* header carrying the length of its list, the items of the list, and a    *)
(* closing STOP.  A stream that ends before its STOP does not load.        *)
(***************************************************************************)
Token(key, n) == [key |-> key, n |-> n]

Stop == Token("stop", 0)

\* the tokens of one list of the dict
DumpList(key, items) ==
    <<Token(key, Len(items))>> \o [i \in 1..Len(items) |-> Token("", items[i])]

\* known_face_metadata as a flat list: three fields per entry
FlattenMetadata(metadata) ==
    [k \in 1..(3 * Len(metadata)) |->
        LET entry == metadata[(k + 2) \div 3]
        IN  CASE k % 3 = 1 -> entry.user_id
              [] k % 3 = 2 -> entry.full_name[2]
              [] OTHER -> entry.employee_id[2]]

UnflattenMetadata(items) ==
    [i \in 1..(Len(items) \div 3) |->
        [user_id |-> items[3 * i - 2],
         full_name |-> <<"name", items[3 * i - 1]>>,
         employee_id |-> <<"emp", items[3 * i]>>]]

\* pickle.dump({'encodings': ..., 'metadata': ...}, f)
pickle_dump(encodings, metadata) ==
    DumpList("encodings", encodings)
      \o DumpList("metadata", FlattenMetadata(metadata))
      \o <<Stop>>

\* one list of the stream, starting at the header at position pos
Section(bytes, pos) ==
    IF pos > Len(bytes) \/ bytes[pos].key \notin {"encodings", "metadata"}
    THEN [ok |-> FALSE, key |-> "", items |-> <<>>, next |-> pos]
    ELSE IF pos + bytes[pos].n > Len(bytes)
    THEN [ok |-> FALSE, key |-> "", items |-> <<>>, next |-> pos]
    ELSE [ok |-> TRUE, key |-> bytes[pos].key,
          items |-> [i \in 1..bytes[pos].n |-> bytes[pos + i].n],
          next |-> pos + bytes[pos].n + 1]

\* pickle.load raised (EOFError, UnpicklingError)
Unpickled == [raised |-> TRUE, keys |-> {}, encodings |-> <<>>,
              metadata |-> <<>>]

\* the dict a stream of one or two lists holds
Loaded(sections) ==
    [raised |-> FALSE,
     keys |-> {sections[i].key : i \in DOMAIN sections},
     encodings |->
        IF \E i \in DOMAIN sections : sections[i].key = "encodings"
        THEN (CHOOSE x \in {sections[i] : i \in DOMAIN sections} :
                  x.key = "encodings").items
        ELSE <<>>,
     metadata |->
        IF \E i \in DOMAIN sections : sections[i].key = "metadata"
        THEN UnflattenMetadata(
                 (CHOOSE x \in {sections[i] : i \in DOMAIN sections} :
                      x.key = "metadata").items)
        ELSE <<>>]

\* pickle.load(f)
pickle_load(bytes) ==
    LET first == Section(bytes, 1)
        second == Section(bytes, first.next)
    IN  IF Len(bytes) = 0 \/ bytes[Len(bytes)] # Stop
        THEN Unpickled
        ELSE IF first.ok /\ first.next = Len(bytes)
        THEN Loaded(<<first>>)
        ELSE IF first.ok /\ second.ok /\ second.next = Len(bytes)
                 /\ second.key # first.key
        THEN Loaded(<<first, second>>)
        ELSE IF bytes = <<Stop>>
        THEN Loaded(<<>>)
        ELSE Unpickled

\* os.path.exists(model_path) is false
NoFile == [exists |-> FALSE, bytes |-> <<>>]

(***************************************************************************)
(* FaceRecognitionService: load_model, save_model, retrain_model           *)
(***************************************************************************)
Gallery(encodings, metadata) ==
    [known_face_encodings |-> encodings, known_face_metadata |-> metadata]

\* faulty variant of load_model: the embeddings come back in reverse order
load_model_reversed(svc, file) ==
    IF ~file.exists
    THEN [svc |-> svc, returned |-> FALSE]
    ELSE LET data == pickle_load(file.bytes)
             reversed == [i \in DOMAIN data.encodings |->
                             data.encodings[Len(data.encodings) + 1 - i]]
         IN  IF data.raised \/ "encodings" \notin data.keys
             THEN [svc |-> svc, returned |-> FALSE]
             ELSE IF "metadata" \notin data.keys
             THEN [svc |-> Gallery(data.encodings, svc.known_face_metadata),
                   returned |-> FALSE]
             ELSE [svc |-> Gallery(reversed, data.metadata),
                   returned |-> TRUE]

\* FaceRecognitionService.load_model: the two lists are assigned one after
\* the other, and a KeyError between them is caught like any exception
load_model(svc, file) ==
    IF ~file.exists
    THEN [svc |-> svc, returned |-> FALSE]
    ELSE LET data == pickle_load(file.bytes)
         IN  IF data.raised \/ "encodings" \notin data.keys
             THEN [svc |-> svc, returned |-> FALSE]
             ELSE IF "metadata" \notin data.keys
             THEN [svc |-> Gallery(data.encodings, svc.known_face_metadata),
                   returned |-> FALSE]
             ELSE [svc |-> Gallery(data.encodings, data.metadata),
                   returned |-> TRUE]

\* FaceRecognitionService.__init__: empty lists, then load_model()
NewService(file) == load_model(Gallery(<<>>, <<>>), file).svc

\* FaceRecognitionService.save_model
save_model(svc) ==
    [exists |-> TRUE,
     bytes |-> pickle_dump(svc.known_face_encodings, svc.known_face_metadata)]

\* pickle.dumps(encoding) and pickle.loads(encoding_bytes) of one embedding
pickle_dumps(encoding) == <<Token("ndarray", encoding), Stop>>
pickle_loads(bytes) == bytes[1].n

\* User.get_all_facial_encodings: the rows of active users, joined with users
get_all_facial_encodings(table, active) ==
    LET rows == SelectSeq(table, LAMBDA row : active[row.user_id])
    IN  [i \in DOMAIN rows |->
            [user_id |-> rows[i].user_id, encoding |-> rows[i].encoding,
             full_name |-> Metadata(rows[i].user_id).full_name,
             employee_id |-> Metadata(rows[i].user_id).employee_id]]

\* the gallery retrain_model builds from a roster
RosterGallery(encodings_data) ==
    Gallery([i \in DOMAIN encodings_data |->
                pickle_loads(encodings_data[i].encoding)],
            [i \in DOMAIN encodings_data |->
                [user_id |-> encodings_data[i].user_id,
                 full_name |-> encodings_data[i].full_name,
                 employee_id |-> encodings_data[i].employee_id]])

\* FaceRecognitionService.retrain_model, on the roster the database returned
retrain_model(svc, encodings_data, file) ==
    IF Len(encodings_data) = 0
    THEN [svc |-> svc, file |-> file, returned |-> FALSE]
    ELSE [svc |-> RosterGallery(encodings_data),
          file |-> save_model(RosterGallery(encodings_data)),
          returned |-> TRUE]

(***************************************************************************)
(* POST /users/<id>/photos and DELETE /users/<id> (routes/users.py)        *)
(***************************************************************************)
\* the files of one upload: some with a refused extension, then some in
\* which the detector finds no face, then some with the user's face
Batch(u, refused, faceless, faces) ==
    [i \in 1..(refused + faceless + faces) |->
        IF i <= refused
        THEN [allowed |-> FALSE, kind |-> "face", encoding |-> u]
        ELSE IF i <= refused + faceless
        THEN [allowed |-> TRUE, kind |-> "noface", encoding |-> None]
        ELSE [allowed |-> TRUE, kind |-> "face", encoding |-> u]]

\* the batches of up to MaxPhotos files, per user
Batches ==
    [u \in Users |->
        {Batch(u, t[1], t[2], t[3]) :
            t \in {t \in (0..MaxPhotos) \X (0..MaxPhotos) \X (0..MaxPhotos) :
                      t[1] + t[2] + t[3] <= MaxPhotos}}]

\* FaceRecognitionService.extract_face_encoding: an embedding or None
extract_face_encoding(photo) ==
    IF photo.kind = "face" THEN photo.encoding ELSE None

\* faulty variant of collect_encodings: a photo without a face is kept
collect_encodings_unchecked(files) ==
    LET tried == SelectSeq(files, LAMBDA file : file.allowed)
    IN  [i \in DOMAIN tried |-> extract_face_encoding(tried[i])]

\* upload_user_photos: the loop over the files, which keeps the embeddings of
\* the allowed files in which a face was found
collect_encodings(files) ==
    LET tried == SelectSeq(files, LAMBDA file : file.allowed)
        found == SelectSeq(tried,
                     LAMBDA file : extract_face_encoding(file) # None)
    IN  [i \in DOMAIN found |-> extract_face_encoding(found[i])]

\* User.save_facial_encodings: DELETE the user's rows, then INSERT the new ones
save_facial_encodings(table, user_id, encodings) ==
    SelectSeq(table, LAMBDA row : row.user_id # user_id)
      \o [i \in DOMAIN encodings |->
             [user_id |-> user_id, encoding |-> pickle_dumps(encodings[i])]]

NoUpload ==
    [count |-> 0, code |-> None, photos_count |-> None, error |-> ""]

MsgTooFewPhotos == "At least 3 photos required for training"
MsgTooFewFaces ==
    "Could not detect faces in enough photos. Please provide clearer photos."

\* upload_user_photos: the batch has too few files or too few embeddings
Rejected(files) ==
    Len(files) < MinPhotos \/ Len(collect_encodings(files)) < MinPhotos

\* upload_user_photos for an existing user: the response
upload_answer(files) ==
    IF Len(files) < MinPhotos
    THEN [code |-> 400, photos_count |-> None, error |-> MsgTooFewPhotos]
    ELSE IF Len(collect_encodings(files)) < MinPhotos
    THEN [code |-> 400, photos_count |-> None, error |-> MsgTooFewFaces]
    ELSE [code |-> 200, photos_count |-> Len(collect_encodings(files)),
          error |-> ""]

\* faulty variant of upload_rows: the embeddings are stored before they are
\* counted
upload_rows_save_first(table, user_id, files) ==
    IF Len(files) < MinPhotos
    THEN table
    ELSE save_facial_encodings(table, user_id, collect_encodings(files))

\* upload_user_photos: the rows of facial_encodings it leaves
upload_rows(table, user_id, files) ==
    IF Rejected(files)
    THEN table
    ELSE save_facial_encodings(table, user_id, collect_encodings(files))

\* upload_user_photos: face_service = FaceRecognitionService(), and for an
\* accepted batch face_service.retrain_model()
upload_retrain(table, active, file, user_id, files) ==
    retrain_model(NewService(file),
                  get_all_facial_encodings(
                      upload_rows(table, user_id, files), active),
                  file)

\* upload_user_photos: the model file it leaves
upload_file(table, active, file, user_id, files) ==
    IF Rejected(files)
    THEN file
    ELSE upload_retrain(table, active, file, user_id, files).file

\* upload_user_photos: the face_service it leaves, once it constructed one
upload_service(table, active, file, user_id, files, svc) ==
    IF Len(files) < MinPhotos
    THEN svc
    ELSE IF Rejected(files)
    THEN NewService(file)
    ELSE upload_retrain(table, active, file, user_id, files).svc

\* POST /users/<id>/photos
UploadPhotos(u, files) ==
    /\ upload.count < MaxUploads
    /\ upload' = [count |-> upload.count + 1,
                  code |-> upload_answer(files).code,
                  photos_count |-> upload_answer(files).photos_count,
                  error |-> upload_answer(files).error]
    /\ facial_encodings' = upload_rows(facial_encodings, u, files)
    /\ model_file' = upload_file(facial_encodings, is_active, model_file,
                                 u, files)
    /\ trainer' = upload_service(facial_encodings, is_active, model_file,
                                 u, files, trainer)
    /\ UNCHANGED <<service, lastcall, now, attendance, manual_marks, http,
                   monitor, is_active, lookup>>

\* delete_user: User.deactivate_user
DeactivateUser(u) ==
    /\ is_active[u]
    /\ is_active' = [is_active EXCEPT ![u] = FALSE]
    /\ UNCHANGED <<service, lastcall, now, attendance, manual_marks, http,
                   monitor, facial_encodings, model_file, trainer, upload,
                   lookup>>

\* what can be found at model_path in place of the file save_model wrote:
\* an empty file, a file cut short by an interrupted write, a pickle of a
\* dict that lacks one of the two lists
DamagedFiles(file) ==
    LET data == pickle_load(file.bytes)
    IN  {[exists |-> TRUE, bytes |-> bytes] :
            bytes \in
              {<<>>,
               SubSeq(file.bytes, 1, Len(file.bytes) - 1),
               DumpList("encodings", data.encodings) \o <<Stop>>,
               DumpList("metadata", FlattenMetadata(data.metadata))
                 \o <<Stop>>}}

\* the server process starts: routes/recognition.py builds its face_service
StartServer ==
    /\ LET face_service == NewService(model_file)
       IN  /\ known_face_encodings' = face_service.known_face_encodings
           /\ known_face_metadata' = face_service.known_face_metadata
    /\ UNCHANGED <<confidence_threshold, lastcall, now, attendance,
                   manual_marks, http, monitor, enrolment, lookup>>

\* the file system: the model file is damaged
DamageFile(file) ==
    /\ model_file.exists
    /\ pickle_load(model_file.bytes).keys = {"encodings", "metadata"}
    /\ file \in DamagedFiles(model_file)
    /\ model_file' = file
    /\ UNCHANGED <<service, lastcall, now, attendance, manual_marks, http,
                   monitor, is_active, facial_encodings, trainer, upload,
                   lookup>>

(***************************************************************************)
(* POST /test (routes/recognition.py): identify_face on the shared         *)
(* face_service, statement by statement, one request per thread            *)
(***************************************************************************)
IdleLookup ==
    [pc |-> "idle", img |-> NoImage, data |-> Unpickled,
     best_match_index |-> None, best_distance |-> None]

\* the thread of a request is done: it returns the result
Return(w, r) ==
    /\ lookup' = [lookup EXCEPT ![w] = IdleLookup]
    /\ image' = lookup[w].img
    /\ result' = r

\* test_recognition: if len(face_service.known_face_encodings) == 0
TestStart(w, img) ==
    /\ lookup[w].pc = "idle"
    /\ \A v \in 1..(w - 1) : lookup[v].pc # "idle"
    /\ lookup' = [lookup EXCEPT ![w].img = img,
                                ![w].pc = IF Len(known_face_encodings) = 0
                                          THEN "load" ELSE "check"]
    /\ UNCHANGED <<service, lastcall, now, attendance, manual_marks, http,
                   monitor, enrolment>>

\* load_model: data = pickle.load(f); self.known_face_encodings = ...
LoadEncodings(w) ==
    /\ lookup[w].pc = "load"
    /\ LET data == pickle_load(model_file.bytes)
       IN  IF ~model_file.exists \/ data.raised
                \/ "encodings" \notin data.keys
           THEN /\ lookup' = [lookup EXCEPT ![w].pc = "check"]
                /\ UNCHANGED known_face_encodings
           ELSE /\ lookup' = [lookup EXCEPT ![w].pc = "load_metadata",
                                            ![w].data = data]
                /\ known_face_encodings' = data.encodings
    /\ UNCHANGED <<known_face_metadata, confidence_threshold, lastcall, now,
                   attendance, manual_marks, http, monitor, enrolment>>

\* load_model: self.known_face_metadata = data['metadata']
LoadMetadata(w) ==
    /\ lookup[w].pc = "load_metadata"
    /\ lookup' = [lookup EXCEPT ![w].pc = "check", ![w].data = Unpickled]
    /\ IF "metadata" \in lookup[w].data.keys
       THEN known_face_metadata' = lookup[w].data.metadata
       ELSE UNCHANGED known_face_metadata
    /\ UNCHANGED <<known_face_encodings, confidence_threshold, lastcall, now,
                   attendance, manual_marks, http, monitor, enrolment>>

\* identify_face: if len(self.known_face_encodings) == 0, and the detection
LookupCheck(w) ==
    /\ lookup[w].pc = "check"
    /\ LET img == lookup[w].img
       IN  IF Len(known_face_encodings) = 0 \/ img.kind # "face"
           THEN Return(w, identify_face(known_face_encodings,
                                        known_face_metadata,
                                        confidence_threshold, img))
           ELSE /\ lookup' = [lookup EXCEPT ![w].pc = "distance"]
                /\ UNCHANGED lastcall
    /\ UNCHANGED <<service, now, attendance, manual_marks, http, monitor,
                   enrolment>>

\* identify_face: face_distance(self.known_face_encodings, ...), np.argmin
\* and the comparison with the threshold
LookupDistance(w) ==
    /\ lookup[w].pc = "distance"
    /\ LET face_distances ==
               face_distance(known_face_encodings, lookup[w].img.encoding)
           best_match_index == argmin(face_distances)
           best_distance == face_distances[best_match_index]
       IN  IF Len(face_distances) = 0
           THEN Return(w, Failure(MsgNoKnown, None, None))
           ELSE IF best_distance > confidence_threshold
           THEN Return(w, Failure(MsgLowConfidence, Format2f(best_distance),
                                  confidence_threshold))
           ELSE /\ lookup' =
                      [lookup EXCEPT ![w].pc = "metadata",
                                     ![w].best_match_index = best_match_index,
                                     ![w].best_distance = best_distance]
                /\ UNCHANGED lastcall
    /\ UNCHANGED <<service, now, attendance, manual_marks, http, monitor,
                   enrolment>>

\* identify_face: user_info = self.known_face_metadata[best_match_index];
\* an IndexError is caught by the except of identify_face
LookupMetadata(w) ==
    /\ lookup[w].pc = "metadata"
    /\ LET best_match_index == lookup[w].best_match_index
           best_distance == lookup[w].best_distance
       IN  IF best_match_index > Len(known_face_metadata)
           THEN Return(w, Failure(MsgError, None, None))
           ELSE LET user_info == known_face_metadata[best_match_index]
                IN  Return(w, [success |-> TRUE,
                               user_id |-> user_info.user_id,
                               full_name |-> user_info.full_name,
                               employee_id |-> user_info.employee_id,
                               confidence |-> 10 - best_distance,
                               distance |-> best_distance,
                               message |-> [text |-> "", distance |-> None,
                                            threshold |-> None]])
    /\ UNCHANGED <<service, now, attendance, manual_marks, http, monitor,
                   enrolment>>

\* the images sent to /test: the face of each user
LifecycleImages == {[kind |-> "face", encoding |-> u] : u \in Users}

\* test_recognition and identify_face (routes/recognition.py): the gallery
\* the route's face_service matches a request against, after the reload
\* that is done only if the gallery is empty
ServingGallery ==
    IF Len(known_face_encodings) = 0
    THEN load_model(Gallery(known_face_encodings, known_face_metadata),
                    model_file).svc
    ELSE Gallery(known_face_encodings, known_face_metadata)

\* POST /test served by one thread from its first to its last statement
TestRecognition(img) ==
    /\ known_face_encodings' = ServingGallery.known_face_encodings
    /\ known_face_metadata' = ServingGallery.known_face_metadata
    /\ image' = img
    /\ result' = identify_face(ServingGallery.known_face_encodings,
                               ServingGallery.known_face_metadata,
                               confidence_threshold, img)
    /\ UNCHANGED <<confidence_threshold, now, attendance, manual_marks, http,
                   monitor, enrolment, lookup>>

(***************************************************************************)
(* The state after construction                                            *)
(***************************************************************************)
InitStore ==
    /\ now = StartTime
    /\ attendance = {}
    /\ manual_marks = 0
    /\ recognition_logs = <<>>
    /\ req = [w \in Workers |-> IdleReq]
    /\ response = NoResponse
    /\ last_recognition = [u \in Enrolled |-> None]
    /\ monitor_events = <<>>
    /\ monitoring = TRUE
    /\ is_active = [u \in Users |-> TRUE]
    /\ trainer = Gallery(<<>>, <<>>)
    /\ upload = NoUpload
    /\ lookup = [w \in Workers |-> IdleLookup]

\* the database rows and the model file a trained gallery comes from
Persisted(encodings, metadata) ==
    /\ facial_encodings =
          [i \in DOMAIN encodings |->
              [user_id |-> metadata[i].user_id,
               encoding |-> pickle_dumps(encodings[i])]]
    /\ model_file = save_model(Gallery(encodings, metadata))

Init ==
    /\ known_face_encodings = PipelineEncodings
    /\ known_face_metadata = PipelineMetadata
    /\ Persisted(PipelineEncodings, PipelineMetadata)
    /\ confidence_threshold = DefaultThreshold
    /\ image = NoImage
    /\ result = NoResult
    /\ InitStore

Next ==
    \/ \E w \in Workers, img \in RequestImages : Identify(w, img)
    \/ \E w \in Workers : SampleNow(w)
    \/ \E w \in Workers : ReadExisting(w)
    \/ \E w \in Workers : MarkEntry(w)
    \/ \E w \in Workers : MarkExit(w)
    \/ \E w \in Workers : MarkHours(w)
    \/ \E u \in Enrolled, body \in ManualBodies : ManualMark(u, body)
    \/ Tick

Spec == Init /\ [][Next]_vars

(***************************************************************************)
(* Entrance monitor (entrance_monitor.py): one synchronous loop            *)
(***************************************************************************)
\* EntranceMonitor.is_in_cooldown
is_in_cooldown(last, user_id, t) ==
    IF last[user_id] = None
    THEN FALSE
    ELSE t < last[user_id] + CooldownMinutes

\* EntranceMonitor.get_cooldown_remaining, in seconds
get_cooldown_remaining(last, user_id, t) ==
    IF last[user_id] = None
    THEN 0
    ELSE IF last[user_id] + CooldownMinutes - t > 0
    THEN (last[user_id] + CooldownMinutes - t) * 60
    ELSE 0

MsgNoAttribute == "type object 'Attendance' has no attribute 'mark_attendance'"

\* Attendance.mark_attendance(user_id): class Attendance defines no such
\* method, so the call raises AttributeError
Attendance_mark_attendance(table, user_id, t) ==
    [raised |-> TRUE, success |-> FALSE, message |-> MsgNoAttribute,
     table |-> table]

\* what mark_attendance hands to process_frame: the returned pair, with the
\* cooldown map and the table as the call left them
Returned(success, message, remaining, last, table) ==
    [raised |-> FALSE, success |-> success, message |-> message,
     remaining |-> remaining, last |-> last, table |-> table]

\* an exception that leaves mark_attendance instead of a returned pair
Propagated(last, table) ==
    [raised |-> TRUE, success |-> FALSE, message |-> "", remaining |-> 0,
     last |-> last, table |-> table]

\* faulty variant of mark_attendance: the cooldown map is written before the
\* outcome of the persist is known
mark_attendance_stamp_first(last, table, user_id, t) ==
    IF is_in_cooldown(last, user_id, t)
    THEN Returned(FALSE, "Cooldown active",
                  get_cooldown_remaining(last, user_id, t), last, table)
    ELSE LET r == Attendance_mark_attendance(table, user_id, t)
             stamped == [last EXCEPT ![user_id] = t]
         IN  IF r.raised
             THEN Returned(FALSE, r.message, 0, stamped, table)
             ELSE IF r.success
             THEN Returned(TRUE, "Attendance marked successfully", 0,
                           stamped, r.table)
             ELSE Returned(FALSE, r.message, 0, stamped, r.table)

\* faulty variant of mark_attendance: without the try/except, an exception
\* of the persist leaves the method
mark_attendance_unguarded(last, table, user_id, t) ==
    IF is_in_cooldown(last, user_id, t)
    THEN Returned(FALSE, "Cooldown active",
                  get_cooldown_remaining(last, user_id, t), last, table)
    ELSE LET r == Attendance_mark_attendance(table, user_id, t)
         IN  IF r.raised
             THEN Propagated(last, table)
             ELSE IF r.success
             THEN Returned(TRUE, "Attendance marked successfully", 0,
                           [last EXCEPT ![user_id] = t], r.table)
             ELSE Returned(FALSE, r.message, 0, last, r.table)

\* EntranceMonitor.mark_attendance: the result, the new cooldown map and table
mark_attendance(last, table, user_id, t) ==
    IF is_in_cooldown(last, user_id, t)
    THEN Returned(FALSE, "Cooldown active",
                  get_cooldown_remaining(last, user_id, t), last, table)
    ELSE LET r == Attendance_mark_attendance(table, user_id, t)
         IN  IF r.raised
             THEN Returned(FALSE, r.message, 0, last, table)
             ELSE IF r.success
             THEN Returned(TRUE, "Attendance marked successfully", 0,
                           [last EXCEPT ![user_id] = t], r.table)
             ELSE Returned(FALSE, r.message, 0, last, r.table)

\* what process_frame draws for one detected face
FaceEvent(user_id, t, outcome, message, remaining) ==
    [user_id |-> user_id, time |-> t, outcome |-> outcome,
     message |-> message, remaining |-> remaining]

\* process_frame: the body of the loop over the detected faces; an exception
\* that reaches it ends process_frame
ProcessFace(st, img, t) ==
    LET r == identify_face(known_face_encodings, known_face_metadata,
                           confidence_threshold, img)
    IN  IF st.raised
        THEN st
        ELSE IF ~r.success
        THEN [st EXCEPT !.events =
                 Append(@, FaceEvent(None, t, "unknown", r.message.text, 0))]
        ELSE IF is_in_cooldown(st.last, r.user_id, t)
        THEN [st EXCEPT !.events =
                 Append(@, FaceEvent(r.user_id, t, "cooldown", "",
                            get_cooldown_remaining(st.last, r.user_id, t)))]
        ELSE LET m == mark_attendance(st.last, st.table, r.user_id, t)
             IN  IF m.raised
                 THEN [st EXCEPT !.raised = TRUE]
                 ELSE [raised |-> FALSE, last |-> m.last, table |-> m.table,
                       events |-> Append(st.events,
                           FaceEvent(r.user_id, t,
                               IF m.success THEN "checked_in" ELSE "failed",
                               m.message, m.remaining))]

RECURSIVE ProcessFaces(_, _, _, _)
ProcessFaces(n, st, img, t) ==
    IF n = 0 THEN st
    ELSE ProcessFaces(n - 1, ProcessFace(st, img, t), img, t)

\* run: one turn of the loop, process_frame on a frame in which the detector
\* finds n faces; an exception that leaves process_frame ends the loop
ProcessFrame(n, img) ==
    /\ monitoring
    /\ Len(monitor_events) + n <= MaxEvents
    /\ LET st == ProcessFaces(n, [raised |-> FALSE,
                                  last |-> last_recognition,
                                  table |-> attendance,
                                  events |-> monitor_events], img, now)
       IN  /\ last_recognition' = st.last
           /\ attendance' = st.table
           /\ monitor_events' = st.events
           /\ monitoring' = ~st.raised
    /\ UNCHANGED <<service, enrolment, lookup, lastcall, now, manual_marks,
                   http>>

\* time passes at the entrance
MonitorTick ==
    /\ now < StartTime + MonitorElapsed
    /\ now' = now + 1
    /\ UNCHANGED <<service, enrolment, lookup, lastcall, attendance,
                   manual_marks, http, monitor>>

NextMonitor ==
    \/ \E n \in 0..MaxFaces, img \in RequestImages : ProcessFrame(n, img)
    \/ MonitorTick

SpecMonitor == Init /\ [][NextMonitor]_vars

(***************************************************************************)
(* Failure specification: the server and the entrance monitor on one       *)
(* database, with images that make detection or encoding fail and with     *)
(* database statements that raise                                          *)
(***************************************************************************)
\* the images of RequestImages, and images in which the detector finds no
\* face, the embedder fails, or which cannot be decoded
FaultyImages ==
    RequestImages
      \cup [kind : {"noface", "noencoding", "undecodable"}, encoding : {None}]

\* the except of the /identify route: the answer to a raised exception
ErrorResponse == [NoResponse EXCEPT !.code = 500, !.message = "error"]

\* the two processes share only the attendance table, which the monitor
\* neither reads nor writes (Attendance_mark_attendance), so a run follows
\* one of them: the server while the monitor has seen no face, the monitor
\* while the server has had no request
MonitorUnused == monitor_events = <<>>

ServerUnused ==
    /\ recognition_logs = <<>>
    /\ response = NoResponse
    /\ \A w \in Workers : req[w].pc = "idle"

\* POST /identify arrives at the server
ServeIdentify(w, img) ==
    /\ MonitorUnused
    /\ Identify(w, img)

\* RecognitionLog.log_recognition raises in /identify: nothing is logged and
\* the route answers 500
LogError(w) ==
    /\ MonitorUnused
    /\ FreeWorker(w)
    /\ response # ErrorResponse
    /\ response' = ErrorResponse
    /\ UNCHANGED <<service, enrolment, lookup, lastcall, now, attendance,
                   manual_marks, recognition_logs, req, monitor>>

\* a database statement of mark_user_attendance raises: the transaction is
\* rolled back and the route answers 500
DbError(w) ==
    /\ req[w].pc \in {"read", "create", "exit", "hours"}
    /\ response' = ErrorResponse
    /\ req' = [req EXCEPT ![w] = IdleReq]
    /\ UNCHANGED <<service, enrolment, lookup, lastcall, now, attendance,
                   manual_marks, recognition_logs, monitor>>

\* the camera of the entrance monitor delivers a frame
WatchFrame(n, img) ==
    /\ ServerUnused
    /\ ProcessFrame(n, img)

NextFaulty ==
    \/ \E w \in Workers, img \in FaultyImages : ServeIdentify(w, img)
    \/ \E w \in Workers : SampleNow(w)
    \/ \E w \in Workers : ReadExisting(w)
    \/ \E w \in Workers : MarkEntry(w)
    \/ \E w \in Workers : MarkExit(w)
    \/ \E w \in Workers : MarkHours(w)
    \/ \E w \in Workers : LogError(w)
    \/ \E w \in Workers : DbError(w)
    \/ \E n \in 0..MaxFaces, img \in FaultyImages : WatchFrame(n, img)

SpecFaulty == Init /\ [][NextFaulty]_vars

(***************************************************************************)
(* Matcher specification: identify_face on every gallery, threshold, image *)
(***************************************************************************)
InitMatcher ==
    /\ \E g \in Galleries :
          /\ known_face_encodings = [i \in DOMAIN g |-> g[i].encoding]
          /\ known_face_metadata = [i \in DOMAIN g |-> Metadata(g[i].user_id)]
          /\ Persisted([i \in DOMAIN g |-> g[i].encoding],
                       [i \in DOMAIN g |-> Metadata(g[i].user_id)])
    /\ confidence_threshold \in Thresholds
    /\ image = NoImage
    /\ result = NoResult
    /\ InitStore

IdentifyFace(img) ==
    /\ image' = img
    /\ result' = identify_face(known_face_encodings, known_face_metadata,
                               confidence_threshold, img)
    /\ UNCHANGED <<service, enrolment, lookup, now, attendance, manual_marks,
                   http, monitor>>

NextMatcher == \E img \in Images : IdentifyFace(img)

SpecMatcher == InitMatcher /\ [][NextMatcher]_vars

(***************************************************************************)
(* Enrolment specification: uploads and deactivations, from a fresh         *)
(* deployment                                                              *)
(***************************************************************************)
InitEnrolment ==
    /\ known_face_encodings = <<>>
    /\ known_face_metadata = <<>>
    /\ confidence_threshold = DefaultThreshold
    /\ facial_encodings = <<>>
    /\ model_file = NoFile
    /\ image = NoImage
    /\ result = NoResult
    /\ InitStore

NextEnrolment ==
    \/ \E u \in Users : \E files \in Batches[u] : UploadPhotos(u, files)
    \/ \E u \in Users : DeactivateUser(u)

SpecEnrolment == InitEnrolment /\ [][NextEnrolment]_vars

(***************************************************************************)
(* Startup specification: the server starts on whatever is at model_path   *)
(***************************************************************************)
InitStartup ==
    /\ known_face_encodings = <<>>
    /\ known_face_metadata = <<>>
    /\ confidence_threshold = DefaultThreshold
    /\ \/ facial_encodings = <<>> /\ model_file = NoFile
       \/ \E g \in Galleries :
             Persisted([i \in DOMAIN g |-> g[i].encoding],
                       [i \in DOMAIN g |-> Metadata(g[i].user_id)])
    /\ image = NoImage
    /\ result = NoResult
    /\ InitStore

NextStartup ==
    \/ StartServer
    \/ \E file \in DamagedFiles(model_file) : DamageFile(file)

SpecStartup == InitStartup /\ [][NextStartup]_vars

(***************************************************************************)
(* Lookup specification: concurrent /test requests on a server that        *)
(* started before the model file was written                               *)
(***************************************************************************)
InitLookup ==
    /\ known_face_encodings = <<>>
    /\ known_face_metadata = <<>>
    /\ confidence_threshold = DefaultThreshold
    /\ Persisted(PipelineEncodings, PipelineMetadata)
    /\ image = NoImage
    /\ result = NoResult
    /\ InitStore

NextLookup ==
    \/ \E w \in Workers, img \in RequestImages : TestStart(w, img)
    \/ \E w \in Workers : LoadEncodings(w)
    \/ \E w \in Workers : LoadMetadata(w)
    \/ \E w \in Workers : LookupCheck(w)
    \/ \E w \in Workers : LookupDistance(w)
    \/ \E w \in Workers : LookupMetadata(w)

SpecLookup == InitLookup /\ [][NextLookup]_vars

(***************************************************************************)
(* Lifecycle specification: one server process serves uploads,             *)
(* deactivations and /test requests; it started on no model file, or on    *)
(* the model file of the enrolled users                                    *)
(***************************************************************************)
InitLifecycle ==
    /\ \/ /\ known_face_encodings = <<>>
          /\ known_face_metadata = <<>>
          /\ facial_encodings = <<>>
          /\ model_file = NoFile
       \/ /\ known_face_encodings = PipelineEncodings
          /\ known_face_metadata = PipelineMetadata
          /\ Persisted(PipelineEncodings, PipelineMetadata)
    /\ confidence_threshold = DefaultThreshold
    /\ image = NoImage
    /\ result = NoResult
    /\ InitStore

NextLifecycle ==
    \/ \E u \in Users : \E files \in Batches[u] : UploadPhotos(u, files)
    \/ \E u \in Users : DeactivateUser(u)
    \/ \E img \in LifecycleImages : TestRecognition(img)

SpecLifecycle == InitLifecycle /\ [][NextLifecycle]_vars

(***************************************************************************)
(* Midnight specification: POST /identify served around the end of a day   *)
(***************************************************************************)
\* the last minute of the first day
LastMinute == DayLen - 1

InitMidnight ==
    /\ known_face_encodings = PipelineEncodings
    /\ known_face_metadata = PipelineMetadata
    /\ Persisted(PipelineEncodings, PipelineMetadata)
    /\ confidence_threshold = DefaultThreshold
    /\ image = NoImage
    /\ result = NoResult
    /\ now = LastMinute
    /\ attendance = {}
    /\ manual_marks = 0
    /\ recognition_logs = <<>>
    /\ req = [w \in Workers |-> IdleReq]
    /\ response = NoResponse
    /\ last_recognition = [u \in Enrolled |-> None]
    /\ monitor_events = <<>>
    /\ monitoring = TRUE
    /\ is_active = [u \in Users |-> TRUE]
    /\ trainer = Gallery(<<>>, <<>>)
    /\ upload = NoUpload
    /\ lookup = [w \in Workers |-> IdleLookup]

\* time passes, into the next day
MidnightTick ==
    /\ now < LastMinute + MaxElapsed
    /\ now' = now + 1
    /\ UNCHANGED <<service, enrolment, lookup, lastcall, attendance,
                   manual_marks, http, monitor>>

NextMidnight ==
    \/ \E w \in Workers, img \in RequestImages : Identify(w, img)
    \/ \E w \in Workers : SampleNow(w)
    \/ \E w \in Workers : ReadExisting(w)
    \/ \E w \in Workers : MarkEntry(w)
    \/ \E w \in Workers : MarkExit(w)
    \/ \E w \in Workers : MarkHours(w)
    \/ MidnightTick

SpecMidnight == InitMidnight /\ [][NextMidnight]_vars

(***************************************************************************)
(* Matcher claims (SpecMatcher)                                            *)
(***************************************************************************)
GalleryIndexes == 1..Len(known_face_encodings)

ProbeDistance(i) == Abs(known_face_encodings[i] - image.encoding)

\* the least distance of the probe to the gallery, defined without argmin
MinDistance ==
    CHOOSE d \in {ProbeDistance(i) : i \in GalleryIndexes} :
        \A i \in GalleryIndexes : d <= ProbeDistance(i)

Probed == image.kind = "face" /\ Len(known_face_encodings) > 0

\* C1: on a non-empty gallery, for every probe embedding and threshold,
\* identify_face succeeds iff the minimum distance of the probe to the
\* gallery is <= the threshold; a distance equal to the threshold is accepted.
C1_AcceptIffWithinThreshold ==
    Probed => (result.success <=> MinDistance <= confidence_threshold)

C1_Witness ==
    /\ Probed
    /\ confidence_threshold = DefaultThreshold
    /\ MinDistance = confidence_threshold
    /\ result.success
    /\ result.distance = DefaultThreshold

\* C2: with an empty gallery identify_face fails with the not-trained reason
\* for every input (face, no face, no encoding, undecodable), never with the
\* no-face or the below-confidence reason.
C2_EmptyGalleryRefuses ==
    (Len(known_face_encodings) = 0 /\ image # NoImage) =>
        /\ ~result.success
        /\ result.message.text = MsgNotTrained
        /\ result.message.text \notin {MsgNoFace, MsgLowConfidence}

C2_Witness ==
    /\ Len(known_face_encodings) = 0
    /\ image.kind = "noface"
    /\ ~result.success
    /\ result.message.text = MsgNotTrained

\* C3: an accepted match returns the identity (user_id, full_name,
\* employee_id) owning the entry of minimum distance; among entries at the
\* minimum distance, the one lowest in gallery order.
C3_FirstNearestOwner ==
    (Probed /\ result.success) =>
        \E i \in GalleryIndexes :
            /\ ProbeDistance(i) = MinDistance
            /\ \A j \in 1..(i - 1) : ProbeDistance(j) # MinDistance
            /\ result.user_id = known_face_metadata[i].user_id
            /\ result.full_name = known_face_metadata[i].full_name
            /\ result.employee_id = known_face_metadata[i].employee_id
            /\ result.distance = MinDistance

C3_Witness ==
    /\ Probed
    /\ result.success
    /\ \E i, j \in GalleryIndexes :
          /\ i < j
          /\ ProbeDistance(i) = MinDistance
          /\ ProbeDistance(j) = MinDistance
          /\ known_face_metadata[i].user_id # known_face_metadata[j].user_id
          /\ result.user_id = known_face_metadata[i].user_id

\* C4: the reason of a rejection is determined by its cause and tells the
\* causes apart: empty gallery <=> not-trained reason; non-empty gallery and
\* no detected face <=> no-face reason; minimum distance above the threshold
\* <=> below-confidence reason, carrying the computed distance.
C4_ReasonTellsCause ==
    (image # NoImage) =>
        /\ ~result.success => result.message.text # ""
        /\ (Len(known_face_encodings) = 0)
              <=> (result.message.text = MsgNotTrained)
        /\ (Len(known_face_encodings) > 0 /\ image.kind = "noface")
              <=> (result.message.text = MsgNoFace)
        /\ (Probed /\ MinDistance > confidence_threshold)
              <=> (result.message.text = MsgLowConfidence)
        /\ (result.message.text = MsgLowConfidence) =>
              /\ result.message.distance = Format2f(MinDistance)
              /\ result.message.threshold = confidence_threshold

C4_Witness ==
    /\ Probed
    /\ ~result.success
    /\ result.message.text = MsgLowConfidence
    /\ result.message.distance = Format2f(DefaultThreshold + 1)

(***************************************************************************)
(* Attendance claims (Spec, SpecMonitor)                                   *)
(***************************************************************************)
\* worker w takes the step that leaves program point `from`
Leaves(w, from) == req[w].pc = from /\ req'[w].pc # from

\* the row with a given id, before and after a step
RowById(table, id) == CHOOSE row \in table : row.id = id

\* C5: the first accepted recognition of a user on a date, at time T, creates
\* the day record with entry_time = T, no exit_time, no total_hours and
\* status 'present', and is reported as 'entry'.
C5_FirstSightingCreatesEntry ==
    [][\A w \in Workers :
        (/\ Leaves(w, "create")
         /\ RowsOf(attendance, req[w].user_id, req[w].today) = {})
        =>
        /\ \E row \in attendance' :
              /\ RowsOf(attendance', req[w].user_id, req[w].today) = {row}
              /\ row \notin attendance
              /\ row.entry_time = req[w].current_time
              /\ row.exit_time = None
              /\ row.total_hours = None
              /\ row.status = "present"
        /\ response'.success
        /\ response'.user_id = req[w].user_id
        /\ response'.attendance_type = "entry"]_vars

C5_Witness ==
    /\ manual_marks = 0
    /\ response.attendance_type = "entry"
    /\ \E row \in attendance :
          /\ row.user_id = response.user_id
          /\ row.entry_time # None
          /\ row.exit_time = None
          /\ row.total_hours = None
          /\ row.status = "present"

C7_OneRowPerUserAndDate ==
    \A r1, r2 \in attendance :
        (r1.user_id = r2.user_id /\ r1.date = r2.date) => r1 = r2

\* a recognition that read "no record" is about to insert although a row for
\* its user and date exists by now
C7_Witness ==
    \E w \in Workers :
        /\ req[w].pc = "create"
        /\ RowsOf(attendance, req[w].user_id, req[w].today) # {}

\* the time of the last attendance event a row records
LastEvent(row) ==
    IF row.exit_time # None THEN row.exit_time ELSE row.entry_time

\* C10: an accepted /identify request for a user that arrives less than the
\* cooldown after that user's previous attendance event returns attendance
\* type 'cooldown' and leaves the day record unchanged.
C10_PipelineHonoursCooldown ==
    [][\A w \in Workers :
        (/\ Leaves(w, "exit")
         /\ manual_marks = 0
         /\ LastEvent(req[w].existing_record) # None
         /\ req[w].current_time - LastEvent(req[w].existing_record)
               < CooldownMinutes)
        =>
        /\ attendance' = attendance
        /\ response'.attendance_type = "cooldown"]_vars

\* the face events of one user, in order
EventsOf(u) == SelectSeq(monitor_events, LAMBDA e : e.user_id = u)

\* C9: for two consecutive accepted recognitions of one identity in the
\* monitoring loop, in frames d minutes apart, the second is suppressed as
\* cooldown if d < cooldown and is an attendance-affecting event if
\* d >= cooldown.
C9_MonitorCooldownWindow ==
    \A u \in Enrolled :
        \A i \in 1..(Len(EventsOf(u)) - 1) :
            LET first == EventsOf(u)[i]
                second == EventsOf(u)[i + 1]
            IN  second.time > first.time =>
                    IF second.time - first.time < CooldownMinutes
                    THEN second.outcome = "cooldown"
                    ELSE second.outcome = "checked_in"

(***************************************************************************)
(* Monitoring-loop claims (SpecMonitor)                                    *)
(***************************************************************************)
\* the face events a step of the monitoring loop adds
NewEvents ==
    {monitor_events'[i] :
        i \in (Len(monitor_events) + 1)..Len(monitor_events')}

\* C11: in the monitoring loop a recognized identity that is not in cooldown
\* has its attendance persisted: mark_attendance succeeds and the identity has
\* a day record for the day of the recognition.
C11_MonitorPersistsAttendance ==
    \A i \in DOMAIN monitor_events :
        LET e == monitor_events[i]
        IN  (e.user_id # None /\ e.outcome # "cooldown") =>
                /\ e.outcome = "checked_in"
                /\ RowsOf(attendance, e.user_id, DateOf(e.time)) # {}

\* C13: when persisting the attendance fails, the failure is reported to the
\* caller with its message and the cooldown map is left as it was before the
\* call.
C13_FailedPersistKeepsCooldownMap ==
    [][\A e \in NewEvents :
          e.outcome = "failed" =>
              /\ e.message # ""
              /\ e.message # "Attendance marked successfully"
              /\ last_recognition'[e.user_id] = last_recognition[e.user_id]
      ]_vars

\* a persist has failed with the raised exception's text, at a time later than
\* an earlier failure of the same user, and the user has no cooldown entry
C13_Witness ==
    \E i, j \in DOMAIN monitor_events :
        /\ i < j
        /\ monitor_events[i].user_id = monitor_events[j].user_id
        /\ monitor_events[i].outcome = "failed"
        /\ monitor_events[j].outcome = "failed"
        /\ monitor_events[j].message = MsgNoAttribute
        /\ monitor_events[j].time > monitor_events[i].time
        /\ last_recognition[monitor_events[j].user_id] = None

\* C14: every run of the recognition pipeline on an image appends an audit
\* entry to recognition_logs, in the monitoring loop as in POST /identify.
C14_EveryInvocationLogged ==
    Len(recognition_logs) = Len(monitor_events)

(***************************************************************************)
(* Lookup claims (SpecLookup)                                              *)
(***************************************************************************)
\* the gallery the model file holds
FileGallery == pickle_load(model_file.bytes)

\* C15: a lookup that runs while another thread reloads the gallery answers
\* as on the complete old gallery (here the empty one) or as on the complete
\* new gallery (the one of the model file), never as on a mixture of both.
C15_LookupSeesWholeGallery ==
    image # NoImage =>
        result \in
          {identify_face(<<>>, <<>>, confidence_threshold, image),
           identify_face(FileGallery.encodings, FileGallery.metadata,
                         confidence_threshold, image)}

(***************************************************************************)
(* Enrolment claims (SpecEnrolment)                                        *)
(***************************************************************************)
\* an upload has just been answered
Uploaded == upload'.count = upload.count + 1

\* the roster the database returns after the step
RosterAfter == get_all_facial_encodings(facial_encodings', is_active')

\* the photos of a batch that yield an embedding
Usable(files) ==
    Cardinality({i \in DOMAIN files :
                    files[i].allowed /\ files[i].kind = "face"})

\* C16: after retrain_model ran on the roster R the database returned, empty
\* or not, the gallery is R in the same order: one entry per record of R and
\* no entry of the gallery held before.
C16_RetrainGivesRoster ==
    [][(Uploaded /\ upload'.code = 200) =>
          /\ Len(trainer'.known_face_encodings) = Len(RosterAfter)
          /\ Len(trainer'.known_face_metadata) = Len(RosterAfter)
          /\ \A i \in DOMAIN RosterAfter :
                /\ trainer'.known_face_encodings[i]
                      = pickle_loads(RosterAfter[i].encoding)
                /\ trainer'.known_face_metadata[i].user_id
                      = RosterAfter[i].user_id
      ]_vars

\* C17: save_model followed by load_model, on the saving store or on a fresh
\* one, gives back the gallery entry for entry and in order, so identify_face
\* answers every probe as before the save.  Stated of every state in which
\* the model file is the one save_model wrote for the trainer's gallery.
C17_SaveLoadRoundTrip ==
    (model_file = save_model(trainer)) =>
        LET fresh == load_model(Gallery(<<>>, <<>>), model_file)
            again == load_model(trainer, model_file)
        IN  /\ fresh.returned /\ again.returned
            /\ fresh.svc = trainer
            /\ again.svc = trainer
            /\ \A img \in Images :
                  identify_face(fresh.svc.known_face_encodings,
                                fresh.svc.known_face_metadata,
                                confidence_threshold, img)
                    = identify_face(trainer.known_face_encodings,
                                    trainer.known_face_metadata,
                                    confidence_threshold, img)

\* a gallery of two users has been saved, and a fresh store loads it
C17_Witness ==
    /\ upload.code = 200
    /\ model_file = save_model(trainer)
    /\ NewService(model_file) = trainer
    /\ \E i, j \in DOMAIN trainer.known_face_metadata :
          /\ i < j
          /\ trainer.known_face_metadata[i].user_id
                # trainer.known_face_metadata[j].user_id
          /\ trainer.known_face_encodings[i] # trainer.known_face_encodings[j]

\* the model file is absent, unreadable, cut short, or lacks one of its lists
Corrupt(file) ==
    \/ ~file.exists
    \/ pickle_load(file.bytes).raised
    \/ pickle_load(file.bytes).keys # {"encodings", "metadata"}

\* C18: a store constructed on an absent or corrupt model file has an empty
\* gallery: both the embedding list and the metadata list are empty.  The
\* steps that leave the model file alone are the starts of the server.
C18_CorruptFileGivesEmptyStore ==
    [][(model_file' = model_file /\ Corrupt(model_file)) =>
          /\ ~load_model(Gallery(<<>>, <<>>), model_file).returned
          /\ known_face_encodings' = <<>>
          /\ known_face_metadata' = <<>>
      ]_vars

\* C19: a training batch succeeds iff at least 3 of its photos yield an
\* embedding, and then as many embeddings are accepted and stored as photos
\* yielded one.
C19_TrainingNeedsThreeEmbeddings ==
    \A u \in Users : \A files \in Batches[u] :
        LET answer == upload_answer(files)
            rows == upload_rows(facial_encodings, u, files)
        IN  /\ answer.code \in {200, 400}
            /\ answer.code = 200 <=> Usable(files) >= MinPhotos
            /\ answer.code = 200 =>
                  /\ answer.photos_count = Usable(files)
                  /\ Len(SelectSeq(rows, LAMBDA row : row.user_id = u))
                        = Usable(files)

\* a batch was accepted with exactly three embeddings, after an accepted
\* batch with more
C19_Witness ==
    /\ upload.count = MaxUploads
    /\ upload.code = 200
    /\ upload.photos_count = MinPhotos
    /\ \E u \in Users :
          /\ Len(SelectSeq(facial_encodings, LAMBDA row : row.user_id = u))
                = MinPhotos
          /\ Len(facial_encodings) > 2 * MinPhotos

\* C20: a training batch with fewer than 3 usable embeddings is rejected and
\* changes nothing: it is answered 400 and leaves the stored encodings and
\* the model file as they were; and every upload answered 400 leaves them,
\* and the gallery of the running service, as they were.
C20_RejectedBatchChangesNothing ==
    /\ [](\A u \in Users : \A files \in Batches[u] :
             Usable(files) < MinPhotos =>
                 /\ upload_answer(files).code = 400
                 /\ upload_rows(facial_encodings, u, files) = facial_encodings
                 /\ upload_file(facial_encodings, is_active, model_file,
                                u, files) = model_file)
    /\ [][(Uploaded /\ upload'.code = 400) =>
             /\ facial_encodings' = facial_encodings
             /\ model_file' = model_file
             /\ known_face_encodings' = known_face_encodings
             /\ known_face_metadata' = known_face_metadata
         ]_vars

\* a batch was rejected for want of faces while encodings and a model file
\* of an earlier batch exist
C20_Witness ==
    /\ upload.code = 400
    /\ upload.error = MsgTooFewFaces
    /\ Len(facial_encodings) >= MinPhotos
    /\ model_file = save_model(trainer)
    /\ Len(trainer.known_face_encodings) = Len(facial_encodings)

(***************************************************************************)
(* Lifecycle claims (SpecLifecycle)                                        *)
(***************************************************************************)
\* the entries of a gallery that hold embedding e for user u
EntriesOf(svc, u, e) ==
    {j \in DOMAIN svc.known_face_encodings :
        /\ j \in DOMAIN svc.known_face_metadata
        /\ svc.known_face_metadata[j].user_id = u
        /\ svc.known_face_encodings[j] = e}

\* the stored rows of user u that hold embedding e
StoredOf(u, e) ==
    {i \in DOMAIN facial_encodings :
        /\ facial_encodings[i].user_id = u
        /\ pickle_loads(facial_encodings[i].encoding) = e}

\* C21: once a photo upload has succeeded and the model has been retrained,
\* the gallery a later identify request is matched against contains the
\* stored embeddings of every active user, those of the upload included,
\* also when the serving gallery was not empty before the upload.
C21_GalleryFollowsUploads ==
    (upload.code = 200) =>
        \A u \in Users : \A e \in Coords :
            is_active[u] =>
                Cardinality(EntriesOf(ServingGallery, u, e))
                    >= Cardinality(StoredOf(u, e))

\* C26: after a user has been deactivated, the gallery identify requests
\* are matched against holds no entry of that user.
C26_DeactivatedLeavesGallery ==
    \A u \in Users :
        ~is_active[u] =>
            \A j \in DOMAIN ServingGallery.known_face_metadata :
                ServingGallery.known_face_metadata[j].user_id # u

(***************************************************************************)
(* Concurrency and ordering claims of POST /identify (Spec)                *)
(***************************************************************************)
\* worker w ends its attendance transition in this step
Transitioned(w) ==
    /\ req[w].pc \in {"create", "exit", "hours"}
    /\ req'[w].pc = "idle"

\* C23: of concurrent accepted recognitions of one identity on one date at
\* most one is the first sighting: a recognition reports 'entry' only when
\* it creates the day record, and one that comes upon the record another
\* recognition created reports 'exit' (or cooldown).
C23_OneFirstSighting ==
    [][\A w \in Workers :
          (Leaves(w, "create") /\ manual_marks = 0) =>
              IF RowsOf(attendance, req[w].user_id, req[w].today) = {}
              THEN response'.attendance_type = "entry"
              ELSE response'.attendance_type \in {"exit", "cooldown"}
      ]_vars

\* C24: on an accepted match the attendance transition comes first and the
\* successful-recognition audit entry is appended after it: the entry is
\* appended no earlier than the step that ends the transition, and every
\* ended transition, whatever its outcome, has its entry.
C24_TransitionBeforeAuditEntry ==
    [][/\ (/\ Len(recognition_logs') = Len(recognition_logs) + 1
           /\ recognition_logs'[Len(recognition_logs')].status = "success")
          => \E w \in Workers : Transitioned(w)
       /\ \A w \in Workers :
             Transitioned(w) =>
                 \E i \in DOMAIN recognition_logs' :
                     /\ recognition_logs'[i].status = "success"
                     /\ recognition_logs'[i].user_id = req[w].user_id
      ]_vars

\* C28: once the day record of a user and date exists, recognition events,
\* in any order and interleaving, leave its entry_time as it is; they change
\* exit_time and total_hours only.
C28_EntryTimeNeverChanges ==
    [][manual_marks' = 0 =>
          \A row \in attendance :
              \E new \in attendance' :
                  /\ new.id = row.id
                  /\ new.user_id = row.user_id
                  /\ new.date = row.date
                  /\ new.status = row.status
                  /\ new.entry_time = row.entry_time
      ]_vars

\* C29: in every reachable state of the attendance table, also between the
\* steps of concurrent requests, a day record with an exit_time has
\* exit_time >= entry_time and total_hours = round((exit - entry)/3600, 2).
C29_ExitAndHoursConsistent ==
    \A row \in attendance :
        (manual_marks = 0 /\ row.exit_time # None) =>
            /\ row.entry_time # None
            /\ row.exit_time >= row.entry_time
            /\ row.total_hours = RoundHours(row.exit_time - row.entry_time)

(***************************************************************************)
(* Calendar-day claim (SpecMidnight)                                       *)
(***************************************************************************)
\* C27: an accepted recognition at time T touches only the day record of
\* the calendar date of T: the timestamps of a record lie on the record's
\* date, and a step of mark_user_attendance leaves the records of all other
\* dates as they are, also around midnight.
C27_RecordOfTheSameDay ==
    /\ [](\A row \in attendance :
             /\ row.entry_time # None => DateOf(row.entry_time) = row.date
             /\ row.exit_time # None => DateOf(row.exit_time) = row.date)
    /\ [][\A w \in Workers :
             req[w].pc \in {"create", "exit", "hours"} /\ req'[w] # req[w] =>
                 \A row \in attendance :
                     row.date # DateOf(req[w].current_time) =>
                         row \in attendance'
         ]_vars

(***************************************************************************)
(* Gallery invariant (SpecLookup)                                          *)
(***************************************************************************)
\* C30: in every state a running identify_face can observe, the embedding
\* list and the metadata list of the gallery have the same length, and the
\* metadata at an index names the owner of the embedding at that index, as
\* the stored encodings record it.
C30_GalleryListsParallel ==
    (\E w \in Workers : lookup[w].pc \in {"check", "distance", "metadata"}) =>
        /\ Len(known_face_encodings) = Len(known_face_metadata)
        /\ \A i \in DOMAIN known_face_encodings :
              \E k \in DOMAIN facial_encodings :
                  /\ facial_encodings[k].user_id
                        = known_face_metadata[i].user_id
                  /\ pickle_loads(facial_encodings[k].encoding)
                        = known_face_encodings[i]

(***************************************************************************)
(* Failure claims (SpecFaulty, SpecMonitor)                                *)
(***************************************************************************)
\* the reasons identify_face gives for a failure
FailureMessages ==
    {MsgNotTrained, MsgNoFace, MsgNoEncoding, MsgNoKnown, MsgLowConfidence,
     MsgError}

C25_FailedPersistIsRetried ==
    \A u \in Enrolled :
        \A i \in 1..(Len(EventsOf(u)) - 1) :
            LET failed == EventsOf(u)[i]
                retry == EventsOf(u)[i + 1]
            IN  failed.outcome = "failed" =>
                    /\ retry.outcome # "cooldown"
                    /\ RowsOf(attendance, u, DateOf(retry.time)) # {}

====
